---- MODULE Spec2Model ----
(***************************************************************************)
(* ContextVault: the File Registry and Conversation Memory durable         *)
(* objects, and the ingestion / deletion orchestrators that drive the      *)
(* passage store (KV) and the registry.                                    *)
(*                                                                         *)
(* A durable object handles one event at a time and, while one of its      *)
(* storage operations is pending, no other event is delivered to it (the   *)
(* input gate); an await on anything else (a request body) lets other      *)
(* requests in.  A handler is modelled by the list of its awaits, in       *)
(* source order, and by the synchronous code between them.                 *)
(***************************************************************************)
EXTENDS Integers, Sequences, FiniteSets, TLC

VARIABLES
    now,        \* Date.now()
    regStore,   \* FileRegistry: storage key "state" as the object reads it
    regDisk,    \* FileRegistry: storage key "state" as persisted
    regReq,     \* FileRegistry: requests being handled
    returned,   \* fileIds sent back by /register, in order of response
    nOps,       \* requests delivered to the FileRegistry so far
    lin,        \* the registry after the committed operations, one at a time
    overlapped, \* a register committed while another register was in flight
    memStore,   \* ConversationMemory: storage key "state", per session
    memReq,     \* ConversationMemory: requests being handled
    memLog,     \* per session, the contents appended since the last clear
    nAppends,   \* /append requests delivered so far
    memOverlapped, \* per session, an append committed while another was in flight
    memFresh,   \* per session, what GET /state last answered from an absent state
    kv,         \* KV_EMBEDDINGS: the keys <<fileId, chunkIndex>> it holds
    ing,        \* ingestFile calls
    del,        \* handleDeleteFile calls
    rankQuery,  \* findTopChunks: queryEmbedding
    rankChunks, \* findTopChunks: chunks, in the order of the store scan
    rankTopN,   \* findTopChunks: topN
    rankOut,    \* findTopChunks: what it returned, once it has
    ret,        \* a retrieveChunks call and the passage store it scans
    qry,        \* the queryLLM calls on a session, one after the other
    chText,     \* chunkText: text
    chTarget,   \* chunkText: targetChunkSize
    chOverlap,  \* chunkText: overlap
    chOut,      \* chunkText: what it returned, once it has
    norm,       \* normalizeVector: a vector, its normal form and that one's
    hq,         \* handleQuery calls on a session, side by side
    sweep       \* a handleCleanupOrphanedChunks call

regVars == <<regStore, regDisk, regReq, returned, nOps, lin, overlapped>>
memVars == <<memStore, memReq, memLog, nAppends, memOverlapped, memFresh>>
orchVars == <<kv, ing, del>>
rankVars == <<rankQuery, rankChunks, rankTopN, rankOut>>
chunkVars == <<chText, chTarget, chOverlap, chOut>>
sideVars == <<norm, hq, sweep>>
callVars == <<ret, qry, chunkVars, sideVars>>
vars == <<now, regVars, memVars, orchVars, rankVars, callVars>>
regOthers == <<memVars, orchVars, rankVars, callVars>>
memOthers == <<regVars, orchVars, rankVars, callVars>>

(***************************************************************************)
(* Bounds of the model.                                                    *)
(***************************************************************************)
MaxClock == 1
MaxOps == 4
MaxReq == 2
MaxAppends == 24
MaxChunks == 3
MaxSessionAppends == 3
MaxRecords == 4
MaxTopN == 5
MaxStored == 5
MaxQueries == 6
MaxText == 6
MaxTarget == 3
MaxCalls == 2
MaxGone == 1
MaxOrphans == 3

Req == 1..MaxReq
Clock == 0..MaxClock

(***************************************************************************)
(* Values.                                                                 *)
(***************************************************************************)
\* An optional value: <<>> when absent, <<v>> when present.
None == <<>>
Some(v) == <<v>>
NoState == None
NoId == <<0, 0>>
Status == {"processing", "completed", "error"}

\* `file_${++state.lastFileId}_${Date.now()}`
FileIdOf(counter, t) == <<counter, t>>

(***************************************************************************)
(* A JavaScript Map: its entries <<key, value>> in insertion order.        *)
(***************************************************************************)
MapHas(m, k) == \E i \in 1..Len(m) : m[i][1] = k

MapGet(m, k) == m[CHOOSE i \in 1..Len(m) : m[i][1] = k][2]

MapSet(m, k, v) ==
    IF MapHas(m, k)
    THEN [i \in 1..Len(m) |-> IF m[i][1] = k THEN <<k, v>> ELSE m[i]]
    ELSE Append(m, <<k, v>>)

MapDelete(m, k) == SelectSeq(m, LAMBDA e : e[1] # k)

MapKeys(m) == {m[i][1] : i \in 1..Len(m)}

RECURSIVE MapFromEntries(_)
\* new Map(entries): a later entry of the same key replaces the earlier one
MapFromEntries(entries) ==
    IF entries = <<>> THEN <<>>
    ELSE LET last == entries[Len(entries)]
         IN MapSet(MapFromEntries(SubSeq(entries, 1, Len(entries) - 1)),
                   last[1], last[2])

\* Array.from(map.entries())
MapEntries(m) == m

\* Object.assign(target, source)
ObjectAssign(target, source) ==
    [f \in (DOMAIN target) \cup (DOMAIN source) |->
        IF f \in DOMAIN source THEN source[f] ELSE target[f]]

(***************************************************************************)
(* FileRegistry.                                                           *)
(***************************************************************************)
getState(stored) ==
    IF stored = NoState
    THEN [files |-> <<>>, lastFileId |-> 0]
    ELSE [files |-> MapFromEntries(stored[1].files),
          lastFileId |-> stored[1].lastFileId]

saveState(state) ==
    [files |-> MapEntries(state.files), lastFileId |-> state.lastFileId]

\* the id taken from the wall clock alone
nextFileId_clockOnly(state, t) == FileIdOf(0, t)

nextFileId(state, t) == FileIdOf(state.lastFileId + 1, t)

\* the id is answered and no entry is made
registerFile_noEntry(state, t) ==
    [ok |-> TRUE,
     state |-> [files |-> state.files, lastFileId |-> state.lastFileId + 1],
     fileId |-> nextFileId(state, t)]

\* The handlers' synchronous code between getState and saveState:
\* [ok, state, fileId].
registerFile(state, t) ==
    LET fileId == nextFileId(state, t)
        metadata == [fileId |-> fileId, uploadedAt |-> t, chunkCount |-> 0,
                     status |-> "processing"]
    IN [ok |-> TRUE,
        state |-> [files |-> MapSet(state.files, fileId, metadata),
                   lastFileId |-> state.lastFileId + 1],
        fileId |-> fileId]

\* an entry is made of the updates when there is none
updateFile_upsert(state, fileId, updates) ==
    [ok |-> TRUE,
     state |-> [state EXCEPT !.files =
                   MapSet(state.files, fileId,
                          IF MapHas(state.files, fileId)
                          THEN ObjectAssign(MapGet(state.files, fileId), updates)
                          ELSE updates)],
     fileId |-> fileId]

updateFile(state, fileId, updates) ==
    IF ~MapHas(state.files, fileId)
    THEN [ok |-> FALSE, state |-> state, fileId |-> fileId]
    ELSE [ok |-> TRUE,
          state |-> [state EXCEPT !.files =
                        MapSet(state.files, fileId,
                               ObjectAssign(MapGet(state.files, fileId), updates))],
          fileId |-> fileId]

deleteFile(state, fileId) ==
    [ok |-> TRUE,
     state |-> [state EXCEPT !.files = MapDelete(state.files, fileId)],
     fileId |-> fileId]

getFile(state, fileId) ==
    [ok |-> MapHas(state.files, fileId), state |-> state, fileId |-> fileId]

\* the state read before the request body is awaited
registerFile_awaits_getFirst == <<"get", "json", "put">>

\* The awaits of each handler, in source order.
registerFile_awaits == <<"json", "get", "put">>
updateFile_awaits == <<"json", "get", "put">>
deleteFile_awaits == <<"get", "put">>
getFile_awaits == <<"get">>

Awaits(op) ==
    CASE op = "register" -> registerFile_awaits
      [] op = "update" -> updateFile_awaits
      [] op = "delete" -> deleteFile_awaits
      [] op = "get" -> getFile_awaits

\* FileRegistry.fetch: the handler a request is routed to
Handle(q, state, t) ==
    CASE q.op = "register" -> registerFile(state, t)
      [] q.op = "update" -> updateFile(state, q.fileId, q.updates[1])
      [] q.op = "delete" -> deleteFile(state, q.fileId)
      [] q.op = "get" -> getFile(state, q.fileId)

\* The updates the callers send (Partial<FileMetadata>): ingestFile's two
\* terminal updates, a bare status, and a bare fileId.
UpdateInputs ==
    {[chunkCount |-> 1, status |-> "completed"],
     [chunkCount |-> 0, status |-> "error", error |-> "e"],
     [status |-> "processing"],
     [fileId |-> NoId]}

IdleReq == [op |-> "idle", at |-> 0, fileId |-> NoId, updates |-> None,
            local |-> None]

PendingAwait(q) == IF q.at = 0 THEN "none" ELSE Awaits(q.op)[q.at]

\* The input gate: no event is delivered while another request's storage
\* operation is pending.
RegGateOpen(r) ==
    \A r2 \in Req \ {r} : PendingAwait(regReq[r2]) \notin {"get", "put"}

KnownIds == {returned[i] : i \in 1..Len(returned)} \cup {NoId}

\* A request is delivered and its handler runs to its first await.
RegArrive(r) ==
    /\ regReq[r].op = "idle"
    /\ RegGateOpen(r)
    /\ \E op \in {"register", "update", "delete", "get"} :
       \E id \in KnownIds :
       \E u \in UpdateInputs :
          /\ nOps < MaxOps
          /\ op = "register" => id = NoId
          /\ op # "update" => u = [status |-> "processing"]
          /\ regReq' = [regReq EXCEPT ![r] =
                [op |-> op, at |-> 1, fileId |-> id,
                 updates |-> IF op = "update" THEN Some(u) ELSE None,
                 local |-> None]]
          /\ nOps' = nOps + 1
    /\ UNCHANGED <<now, regStore, regDisk, returned, lin, overlapped>>
    /\ UNCHANGED regOthers

OtherRegisterInFlight(r) == \E r2 \in Req \ {r} : regReq[r2].op = "register"

\* The pending await of request r completes and the handler runs to its next
\* await, or to its response.
RegStep(r) ==
    LET q == regReq[r]
        aw == Awaits(q.op)
        a == aw[q.at]
        st == IF a = "get" THEN Some(getState(regStore)) ELSE q.local
        res == Handle(q, st[1], now)
        onLin == Handle(q, lin, now)
    IN
    /\ q.op # "idle"
    /\ RegGateOpen(r)
    /\ IF a = "put"
       THEN \* the write is durable and the response leaves
            /\ regDisk' = regStore
            /\ returned' = IF q.op = "register"
                           THEN Append(returned, q.fileId) ELSE returned
            /\ regReq' = [regReq EXCEPT ![r] = IdleReq]
            /\ UNCHANGED <<regStore, lin, overlapped>>
       ELSE IF q.at = Len(aw)
       THEN \* a read-only handler responds
            /\ regReq' = [regReq EXCEPT ![r] = IdleReq]
            /\ UNCHANGED <<regStore, regDisk, returned, lin, overlapped>>
       ELSE IF aw[q.at + 1] = "put"
       THEN IF res.ok
            THEN \* saveState: storage.put is issued
                 /\ regStore' = Some(saveState(res.state))
                 /\ lin' = IF onLin.ok THEN onLin.state ELSE lin
                 /\ overlapped' = (overlapped \/ (q.op = "register" /\ OtherRegisterInFlight(r)))
                 /\ regReq' = [regReq EXCEPT ![r] =
                        [q EXCEPT !.at = q.at + 1, !.fileId = res.fileId,
                                  !.local = None]]
                 /\ UNCHANGED <<regDisk, returned>>
            ELSE \* 404: nothing is written
                 /\ regReq' = [regReq EXCEPT ![r] = IdleReq]
                 /\ UNCHANGED <<regStore, regDisk, returned, lin, overlapped>>
       ELSE /\ regReq' = [regReq EXCEPT ![r] =
                   [q EXCEPT !.at = q.at + 1, !.local = st]]
            /\ UNCHANGED <<regStore, regDisk, returned, lin, overlapped>>
    /\ UNCHANGED <<now, nOps>>
    /\ UNCHANGED regOthers

\* The object is evicted or crashes and is constructed again over its
\* storage: requests in flight are lost, and a write whose put was still
\* pending is on disk or not.
RegRestart ==
    /\ \E kept \in {regDisk, regStore} :
          /\ regStore' = kept
          /\ regDisk' = kept
          /\ lin' = getState(kept)
    /\ regReq' = [r \in Req |-> IdleReq]
    /\ UNCHANGED <<now, returned, nOps, overlapped>>
    /\ UNCHANGED regOthers

Tick ==
    /\ now < MaxClock
    /\ now' = now + 1
    /\ UNCHANGED <<regVars, memVars, orchVars, rankVars, callVars>>

(***************************************************************************)
(* ConversationMemory, one durable object per session.                     *)
(***************************************************************************)
MAX_TURNS == 10

Sessions == {"s1", "s2"}

\* the turns are never cut
keepLast_uncut(turns) == turns

\* the first MAX_TURNS turns are kept instead of the last
keepLast_oldest(turns) ==
    IF Len(turns) > MAX_TURNS THEN SubSeq(turns, 1, MAX_TURNS) ELSE turns

\* if (turns.length > MAX_TURNS) turns = turns.slice(-MAX_TURNS)
keepLast(turns) ==
    IF Len(turns) > MAX_TURNS
    THEN SubSeq(turns, Len(turns) - MAX_TURNS + 1, Len(turns))
    ELSE turns

\* an unknown session is an error
ConversationMemory_getState_notFound(stored, t) ==
    IF stored = None THEN [error |-> "Session not found"] ELSE stored[1]

\* The turns of the response of GET /state.
TurnsOfStored(stored, t) == IF stored = None THEN <<>> ELSE stored[1].turns

\* The response of GET /state.
ConversationMemory_getState(stored, t) ==
    IF stored = None
    THEN [turns |-> <<>>, sessionId |-> "", createdAt |-> t, updatedAt |-> t]
    ELSE stored[1]

\* The state appendTurn puts, from the state it got.
appendTurn(stored, role, content, sessionId, t) ==
    LET state == IF stored = None
                 THEN [turns |-> <<>>, sessionId |-> sessionId,
                       createdAt |-> t, updatedAt |-> t]
                 ELSE stored[1]
        pushed == Append(state.turns,
                         [role |-> role, content |-> content, timestamp |-> t])
    IN [state EXCEPT !.turns = keepLast(pushed),
                     !.updatedAt = t,
                     !.sessionId = IF sessionId # "" THEN sessionId ELSE @]

\* the state is kept
clear_keepsState(stored) == stored

\* storage.delete("state"): what is stored after clear
clear(stored) == None

\* every session is served by one object
idFromName_global(sessionId) == "s1"

\* env.CONVERSATION_MEMORY.idFromName(sessionId): the object of a session
idFromName(sessionId) == sessionId

\* the state read before the request body is awaited
appendTurn_awaits_getFirst == <<"get", "json", "put">>

appendTurn_awaits == <<"json", "get", "put">>
ConversationMemory_getState_awaits == <<"get">>
clear_awaits == <<"delete">>

MemAwaits(op) ==
    CASE op = "append" -> appendTurn_awaits
      [] op = "state" -> ConversationMemory_getState_awaits
      [] op = "clear" -> clear_awaits

\* queryLLM appends the user's query, then the model's answer
RoleOf(content) == IF content % 2 = 1 THEN "user" ELSE "assistant"

IdleMemReq == [op |-> "idle", at |-> 0, session |-> "", local |-> None]

MemPendingAwait(q) == IF q.at = 0 THEN "none" ELSE MemAwaits(q.op)[q.at]

\* The input gate of the session's object.
MemGateOpen(r, s) ==
    \A r2 \in Req \ {r} :
        idFromName(memReq[r2].session) = idFromName(s)
            => MemPendingAwait(memReq[r2]) \notin {"get", "put", "delete"}

OtherAppendInFlight(r, s) ==
    \E r2 \in Req \ {r} : memReq[r2].op = "append" /\ memReq[r2].session = s

\* A request is delivered to the object of session s and its handler runs to
\* its first await; clear issues storage.delete at once.
MemArrive(r, s) ==
    /\ memReq[r].op = "idle"
    /\ MemGateOpen(r, s)
    /\ \E op \in {"append", "state", "clear"} :
          /\ op = "append" => nAppends < MaxAppends
          /\ memReq' = [memReq EXCEPT ![r] =
                [op |-> op, at |-> 1, session |-> s, local |-> None]]
          /\ nAppends' = IF op = "append" THEN nAppends + 1 ELSE nAppends
          /\ IF op = "clear"
             THEN /\ memStore' = [memStore EXCEPT ![idFromName(s)] = clear(@)]
                  /\ memLog' = [memLog EXCEPT ![s] = <<>>]
                  /\ memOverlapped' = [memOverlapped EXCEPT ![s] = FALSE]
             ELSE UNCHANGED <<memStore, memLog, memOverlapped>>
    /\ UNCHANGED <<now, memFresh>>
    /\ UNCHANGED memOthers

\* The pending await of request r completes and the handler runs to its next
\* await, or to its response.
MemStep(r) ==
    LET q == memReq[r]
        s == q.session
        aw == MemAwaits(q.op)
        a == aw[q.at]
        got == IF a = "get" THEN memStore[idFromName(s)] ELSE q.local
        reply == ConversationMemory_getState(got, now)
        \* The handler never reads the content it stores: the turns are told
        \* apart by naming each content after its place in the order of commits.
        content == Len(memLog[s]) + 1
    IN
    /\ q.op # "idle"
    /\ MemGateOpen(r, s)
    /\ IF q.at = Len(aw)
       THEN \* the response leaves
            /\ memReq' = [memReq EXCEPT ![r] = IdleMemReq]
            /\ memFresh' = IF q.op = "state" /\ got = None
                           THEN [memFresh EXCEPT ![s] =
                                   IF "turns" \in DOMAIN reply /\ reply.turns = <<>>
                                   THEN "empty" ELSE "other"]
                           ELSE memFresh
            /\ UNCHANGED <<memStore, memLog, memOverlapped>>
       ELSE IF aw[q.at + 1] = "put"
       THEN \* storage.put is issued
            /\ memStore' = [memStore EXCEPT ![idFromName(s)] =
                    Some(appendTurn(got, RoleOf(content), content, s, now))]
            /\ memFresh' = memFresh
            /\ memLog' = [memLog EXCEPT ![s] = Append(@, content)]
            /\ memOverlapped' = [memOverlapped EXCEPT ![s] =
                    @ \/ OtherAppendInFlight(r, s)]
            /\ memReq' = [memReq EXCEPT ![r] =
                    [q EXCEPT !.at = q.at + 1, !.local = None]]
       ELSE /\ memReq' = [memReq EXCEPT ![r] =
                    [q EXCEPT !.at = q.at + 1, !.local = got]]
            /\ UNCHANGED <<memStore, memLog, memOverlapped, memFresh>>
    /\ UNCHANGED <<now, nAppends>>
    /\ UNCHANGED memOthers

InitMem ==
    /\ memStore = [s \in Sessions |-> None]
    /\ memReq = [r \in Req |-> IdleMemReq]
    /\ memLog = [s \in Sessions |-> <<>>]
    /\ nAppends = 0
    /\ memOverlapped = [s \in Sessions |-> FALSE]
    /\ memFresh = [s \in Sessions |-> "none"]

(***************************************************************************)
(* The worker: ingestFile and handleDeleteFile.  Each call to the registry *)
(* is one request to the FileRegistry object, which handles it as a whole  *)
(* before any other (SpecRegistry); the worker's own awaits interleave.    *)
(***************************************************************************)
Ingests == {"i1"}
Deletes == {"d1", "d2"}

\* `${fileId}:${chunk.index}`
ChunkKey(fileId, index) == <<fileId, index>>

\* KV_EMBEDDINGS.list({ prefix: `${fileId}:` })
KeysOf(store, fileId) == {k \in store : k[1] = fileId}

\* chunkText numbers the chunks it returns 0, 1, 2, ...
ChunkIndexAt(i) == i

\* every attempted passage is counted
processedAfter_attempted(count, outcome) == count + 1

\* processedCount++ follows the put: a passage that threw is not counted
processedAfter(count, outcome) ==
    IF outcome = "stored" THEN count + 1 ELSE count

\* the loop is left at the first failure
nextChunk_abort(i, n, outcome) == IF outcome = "stored" THEN i + 1 ELSE n

\* the catch is inside the loop: the next chunk follows, whatever happened
nextChunk(i, n, outcome) == i + 1

\* status: errors.length > 0 ? "error" : "completed"
terminalStatus(errors) == IF Len(errors) > 0 THEN "error" ELSE "completed"

\* the status is left out of the update
ingestUpdates_countOnly(processedCount, errors) == [chunkCount |-> processedCount]

\* the updates ingestFile sends; JSON drops the undefined error
ingestUpdates(processedCount, errors) ==
    IF Len(errors) > 0
    THEN [chunkCount |-> processedCount, status |-> terminalStatus(errors),
          error |-> errors]
    ELSE [chunkCount |-> processedCount, status |-> terminalStatus(errors)]

IdleIng == [pc |-> "idle", fileId |-> NoId, n |-> 0, i |-> 0,
            processedCount |-> 0, errors |-> <<>>, tried |-> {},
            nStored |-> 0, sent |-> "none", updateOk |-> FALSE,
            nUpdates |-> 0, result |-> "none", content |-> None]

IdleDel == [pc |-> "idle", fileId |-> NoId, chunkCount |-> 0, pending |-> {},
            rejected |-> FALSE, retryRejected |-> FALSE, regDeleted |-> FALSE,
            afterIngest |-> FALSE, result |-> "none", verification |-> "none"]

\* One request to the FileRegistry, handled as a whole.
RegistryCall(res) ==
    /\ regStore' = Some(saveState(res.state))
    /\ regDisk' = Some(saveState(res.state))
    /\ lin' = res.state
    /\ UNCHANGED <<regReq, returned, nOps, overlapped>>

\* A character of a string is the pair of the character and its place in
\* the string it was read from.
\* \s
isWhitespace(x) == x[1] \in {" ", "\n"}

\* [.!?]
isTerminator(x) == x[1] = "."

MinOf(S) == CHOOSE x \in S : \A y \in S : x <= y

MaxOf(S) == CHOOSE x \in S : \A y \in S : x >= y

\* String.prototype.trim
trim(str) ==
    LET inked == {i \in 1..Len(str) : ~isWhitespace(str[i])}
    IN IF inked = {} THEN <<>> ELSE SubSeq(str, MinOf(inked), MaxOf(inked))

\* What handleUpload reads as fileContent: nothing (a JSON body without
\* content), the empty string, blank strings, and a string with a letter.
UploadContents ==
    {None, Some(<<>>), Some(<<" ">>), Some(<<"\n", " ">>), Some(<<"a">>)}

\* only the empty content is refused
uploadRejects_emptyOnly(fileContent) ==
    IF fileContent = None THEN TRUE ELSE Len(fileContent[1]) = 0

\* !fileContent || fileContent.trim().length === 0
uploadRejects(fileContent) ==
    IF fileContent = None THEN TRUE
    ELSE LET str == [i \in 1..Len(fileContent[1]) |-> <<fileContent[1][i], i>>]
         IN Len(trim(str)) = 0

\* handleUpload answers 400, File content is empty.
UploadReject(t) ==
    /\ ing[t].pc = "idle"
    /\ \E fileContent \in UploadContents :
          /\ uploadRejects(fileContent)
          /\ ing' = [ing EXCEPT ![t] =
                [IdleIng EXCEPT !.pc = "rejected", !.result = "rejected",
                                !.content = fileContent]]
    /\ UNCHANGED <<now, kv, del>>
    /\ UNCHANGED <<regVars, memVars, rankVars, callVars>>

\* handleUpload calls ingestFile: the file is registered and its text
\* chunked into n chunks.
IngestRegister(t) ==
    /\ ing[t].pc = "idle"
    /\ \E fileContent \in UploadContents : \E n \in 0..MaxChunks :
        LET res == registerFile(getState(regStore), now)
        IN /\ ~uploadRejects(fileContent)
           /\ RegistryCall(res)
           /\ ing' = [ing EXCEPT ![t] =
                 [IdleIng EXCEPT !.pc = IF n = 0 THEN "update" ELSE "embed",
                                 !.fileId = res.fileId, !.n = n,
                                 !.content = fileContent]]
    /\ UNCHANGED <<now, kv, del>>
    /\ UNCHANGED <<memVars, rankVars, callVars>>

\* The chunk at hand is done with, stored or not.
IngestAfterChunk(t, outcome) ==
    LET g == ing[t]
        next == nextChunk(g.i, g.n, outcome)
    IN ing' = [ing EXCEPT ![t] =
          [g EXCEPT !.i = next,
                    !.pc = IF next < g.n THEN "embed" ELSE "update",
                    !.processedCount = processedAfter(@, outcome),
                    !.errors = IF outcome = "stored" THEN @
                               ELSE Append(@, ChunkIndexAt(g.i)),
                    !.tried = @ \cup {ChunkIndexAt(g.i)},
                    !.nStored = IF outcome = "stored" THEN @ + 1 ELSE @]]

\* await generateEmbedding (and normalizeVector): it returns or throws.
IngestEmbed(t) ==
    /\ ing[t].pc = "embed"
    /\ \/ ing' = [ing EXCEPT ![t].pc = "put"]
       \/ IngestAfterChunk(t, "embedFailed")
    /\ UNCHANGED <<now, kv, del>>
    /\ UNCHANGED <<regVars, memVars, rankVars, callVars>>

\* await KV_EMBEDDINGS.put: the record is stored, or the put throws.
IngestPut(t) ==
    /\ ing[t].pc = "put"
    /\ \/ /\ kv' = kv \cup {ChunkKey(ing[t].fileId, ChunkIndexAt(ing[t].i))}
          /\ IngestAfterChunk(t, "stored")
       \/ /\ kv' = kv
          /\ IngestAfterChunk(t, "putFailed")
    /\ UNCHANGED <<now, del>>
    /\ UNCHANGED <<regVars, memVars, rankVars, callVars>>

\* what ingestFile does when the update was answered: a response that is not
\* ok is logged, and { fileId, chunkCount } is returned either way
ingestResult(updateOk) == "returned"

\* The terminal update; a 404 is logged and the call returns all the same.
IngestUpdate(t) ==
    /\ ing[t].pc = "update"
    /\ LET g == ing[t]
           res == updateFile(getState(regStore), g.fileId,
                             ingestUpdates(g.processedCount, g.errors))
       IN /\ RegistryCall(res)
          /\ ing' = [ing EXCEPT ![t] =
                [g EXCEPT !.pc = "done", !.sent = terminalStatus(g.errors),
                          !.updateOk = res.ok, !.nUpdates = @ + 1,
                          !.result = ingestResult(res.ok)]]
    /\ UNCHANGED <<now, kv, del>>
    /\ UNCHANGED <<memVars, rankVars, callVars>>

IssuedIds == {ing[t].fileId : t \in Ingests} \cup {NoId}

IngestDoneFor(fileId) ==
    \E t \in Ingests : ing[t].fileId = fileId /\ ing[t].pc = "done"

\* fileMetadata.chunkCount || 0
chunkCountOf(metadata) == metadata.chunkCount

\* the keys under the id are looked for and deleted all the same
handleDeleteFile_unknown_sweeps(id) ==
    [IdleDel EXCEPT !.pc = "verify", !.fileId = id]

\* if (!getResponse.ok): 404, File not found
handleDeleteFile_unknown(id) ==
    [IdleDel EXCEPT !.pc = "done", !.fileId = id, !.result = "notfound"]

\* handleDeleteFile: the entry is read and the chunk deletes are all issued.
DelStart(d) ==
    /\ del[d].pc = "idle"
    /\ \E id \in IssuedIds :
        LET res == getFile(getState(regStore), id)
            cc == chunkCountOf(MapGet(res.state.files, id))
        IN del' = [del EXCEPT ![d] =
              IF res.ok
              THEN [IdleDel EXCEPT !.pc = "deleting", !.fileId = id,
                                   !.chunkCount = cc,
                                   !.pending = {ChunkIndexAt(i) : i \in 0..(cc - 1)},
                                   !.afterIngest = IngestDoneFor(id)]
              ELSE handleDeleteFile_unknown(id)]
    /\ UNCHANGED <<now, kv, ing>>
    /\ UNCHANGED <<regVars, memVars, rankVars, callVars>>

\* One of the issued KV deletes settles: the key is gone, or the delete throws.
DelKey(d) ==
    /\ \E i \in del[d].pending :
        LET q == del[d]
            \* the retried deletes are issued by the verification
            first == q.verification = "none"
        IN \/ /\ kv' = kv \ {ChunkKey(q.fileId, i)}
              /\ del' = [del EXCEPT ![d].pending = @ \ {i}]
           \/ /\ kv' = kv
              /\ del' = [del EXCEPT ![d] =
                    [q EXCEPT !.pending = @ \ {i},
                              !.rejected = @ \/ first,
                              !.retryRejected = @ \/ ~first]]
    /\ UNCHANGED <<now, ing>>
    /\ UNCHANGED <<regVars, memVars, rankVars, callVars>>

\* Promise.all(deletePromises) rejects: the handler answers 500.
DelReject(d) ==
    /\ del[d].pc = "deleting"
    /\ del[d].rejected
    /\ del' = [del EXCEPT ![d].pc = "done", ![d].result = "error"]
    /\ UNCHANGED <<now, kv, ing>>
    /\ UNCHANGED <<regVars, memVars, rankVars, callVars>>

\* the failures are not looked at (Promise.allSettled)
deletesResolved_settled(q) == q.pending = {}

\* Promise.all(deletePromises) resolves: every delete succeeded
deletesResolved(q) == q.pending = {} /\ ~q.rejected

\* The entry is deleted from the registry.
DelRegistry(d) ==
    /\ del[d].pc = "deleting"
    /\ deletesResolved(del[d])
    /\ RegistryCall(deleteFile(getState(regStore), del[d].fileId))
    /\ del' = [del EXCEPT ![d].pc = "verify", ![d].regDeleted = TRUE]
    /\ UNCHANGED <<now, kv, ing>>
    /\ UNCHANGED <<memVars, rankVars, callVars>>

\* the keys are not looked for again
leftoverKeys_none(store, fileId) == {}

\* the keys still listed under the file's prefix
leftoverKeys(store, fileId) == KeysOf(store, fileId)

\* The prefix is listed; keys still there are deleted once more.
DelVerify(d) ==
    /\ del[d].pc = "verify"
    /\ LET left == leftoverKeys(kv, del[d].fileId)
       IN del' = [del EXCEPT ![d] =
             IF left = {}
             THEN [@ EXCEPT !.pc = "done", !.result = "success",
                            !.verification = "passed"]
             ELSE [@ EXCEPT !.pc = "retry", !.pending = {k[2] : k \in left},
                            !.verification = "failed"]]
    /\ UNCHANGED <<now, kv, ing>>
    /\ UNCHANGED <<regVars, memVars, rankVars, callVars>>

\* Promise.all(retryDeletePromises) resolves, or rejects and the handler
\* answers 500.
DelRetryEnd(d) ==
    /\ del[d].pc = "retry"
    /\ \/ /\ del[d].pending = {} /\ ~del[d].retryRejected
          /\ del' = [del EXCEPT ![d].pc = "done", ![d].result = "success"]
       \/ /\ del[d].retryRejected
          /\ del' = [del EXCEPT ![d].pc = "done", ![d].result = "error"]
    /\ UNCHANGED <<now, kv, ing>>
    /\ UNCHANGED <<regVars, memVars, rankVars, callVars>>

InitOrch ==
    /\ kv = {}
    /\ ing = [t \in Ingests |-> IdleIng]
    /\ del = [d \in Deletes |-> IdleDel]

(***************************************************************************)
(* The ranker: cosineSimilarity and findTopChunks.  A number is an integer *)
(* between -MAX_VALUE and MAX_VALUE, Infinity, -Infinity or NaN; the       *)
(* result of an addition or a multiplication beyond MAX_VALUE is infinite. *)
(* A call that throws yields None, one that returns v yields Some(v).      *)
(***************************************************************************)
\* Number.MAX_VALUE, scaled down
MAX_VALUE == 100
Infinity == MAX_VALUE + 1
NaN == MAX_VALUE + 2

isNaN(x) == x = NaN

isFinite(x) == x \in (-MAX_VALUE)..MAX_VALUE

\* the number nearest to the exact result x
roundNumber(x) ==
    IF x > MAX_VALUE THEN Infinity ELSE IF x < -MAX_VALUE THEN -Infinity ELSE x

\* a * b
multiply(a, b) ==
    IF isNaN(a) \/ isNaN(b) THEN NaN
    ELSE IF isFinite(a) /\ isFinite(b) THEN roundNumber(a * b)
    ELSE IF a = 0 \/ b = 0 THEN NaN
    ELSE IF (a > 0) = (b > 0) THEN Infinity ELSE -Infinity

\* a + b
add(a, b) ==
    IF isNaN(a) \/ isNaN(b) THEN NaN
    ELSE IF isFinite(a) /\ isFinite(b) THEN roundNumber(a + b)
    ELSE IF isFinite(a) THEN b
    ELSE IF isFinite(b) \/ a = b THEN a
    ELSE NaN

\* a - b
subtract(a, b) == IF isNaN(b) THEN NaN ELSE add(a, -b)

\* The query vectors; the stored vectors: well-formed ones, one of another
\* length, one of huge components and one with a component that is not a
\* number.
Queries == {<<1, 0>>, <<0, 1>>, <<1, 1>>, <<1, -1>>}
Embeddings == {<<1, 0>>, <<0, 1>>, <<-1, 0>>, <<1, 1>>,
               <<1>>, <<MAX_VALUE, MAX_VALUE>>, <<NaN, 0>>}

RECURSIVE dotProduct(_, _, _)
\* for (i = 0; i < vec1.length; i++) dotProduct += vec1[i] * vec2[i]
dotProduct(vec1, vec2, n) ==
    IF n = 0 THEN 0
    ELSE add(dotProduct(vec1, vec2, n - 1), multiply(vec1[n], vec2[n]))

\* the components beyond the shorter vector are left out
cosineSimilarity_truncating(vec1, vec2) ==
    LET n == IF Len(vec1) < Len(vec2) THEN Len(vec1) ELSE Len(vec2)
        similarity == dotProduct(vec1, vec2, n)
    IN Some(IF isNaN(similarity) THEN 0 ELSE similarity)

\* throws when the lengths differ; isNaN(similarity) ? 0 : similarity
cosineSimilarity(vec1, vec2) ==
    IF Len(vec1) # Len(vec2) THEN None
    ELSE LET similarity == dotProduct(vec1, vec2, Len(vec1))
         IN Some(IF isNaN(similarity) THEN 0 ELSE similarity)

\* the lowest scores first
compareFn_ascending(a, b) == subtract(a.score, b.score)

\* (a, b) => b.score - a.score
compareFn(a, b) == subtract(b.score, a.score)

\* Array.prototype.sort takes a comparison that yields NaN for +0
SortCompare(a, b) ==
    LET v == compareFn(a, b) IN IF isNaN(v) THEN 0 ELSE v

\* x is put before the elements it ties with
sortInsert_beforeTies(sorted, x) ==
    LET after == {j \in 1..Len(sorted) : SortCompare(sorted[j], x) >= 0}
        at == IF after = {} THEN Len(sorted) + 1
              ELSE CHOOSE j \in after : \A k \in after : j <= k
    IN SubSeq(sorted, 1, at - 1) \o <<x>> \o SubSeq(sorted, at, Len(sorted))

\* Array.prototype.sort is stable: x goes before the first element that the
\* comparison puts after it, and so after every element it ties with
sortInsert(sorted, x) ==
    LET after == {j \in 1..Len(sorted) : SortCompare(sorted[j], x) > 0}
        at == IF after = {} THEN Len(sorted) + 1
              ELSE CHOOSE j \in after : \A k \in after : j <= k
    IN SubSeq(sorted, 1, at - 1) \o <<x>> \o SubSeq(sorted, at, Len(sorted))

RECURSIVE sort(_)
\* scored.sort(compareFn)
sort(scored) ==
    IF scored = <<>> THEN <<>>
    ELSE sortInsert(sort(SubSeq(scored, 1, Len(scored) - 1)), scored[Len(scored)])

\* array.slice(0, topN), topN >= 0
slice(array, topN) ==
    SubSeq(array, 1, IF topN < Len(array) THEN topN ELSE Len(array))

\* a throw of cosineSimilarity is not caught
findTopChunks(queryEmbedding, chunks, topN) ==
    LET scores == [i \in 1..Len(chunks) |->
                      cosineSimilarity(queryEmbedding, chunks[i].embedding)]
        scored == [i \in 1..Len(chunks) |->
                      [chunkKey |-> chunks[i].key, score |-> scores[i][1]]]
    IN IF \E i \in 1..Len(chunks) : scores[i] = None THEN None
       ELSE Some(slice(sort(scored), topN))

\* The ranker has not been called.
InitRank ==
    /\ rankQuery = <<>>
    /\ rankChunks = <<>>
    /\ rankTopN = 0
    /\ rankOut = None

(***************************************************************************)
(* retrieveChunks: the passage store is listed, its values are fetched in  *)
(* batches, and the records that have an embedding are ranked.  The store  *)
(* is the sequence of its values in the order of their keys; the key of a  *)
(* value is its place.                                                     *)
(***************************************************************************)
\* const batchSize = 100, scaled down
batchSize == 2

\* KVNamespace.list() returns the first 1000 keys, and a cursor for the
\* rest; scaled down
KV_LIST_LIMIT == 4

\* topN: number = 5
DEFAULT_TOP_N == 5

\* What get(key, "json") yields: null, a record without an embedding, records
\* of well-formed embeddings, and a record whose embedding is too short.
StoredValues ==
    {None,
     Some([text |-> "t"]),
     Some([text |-> "t", embedding |-> <<1, 0>>]),
     Some([text |-> "t", embedding |-> <<0, 1>>]),
     Some([text |-> "t", embedding |-> <<1>>])}

\* env.KV_EMBEDDINGS.list(): keys.keys
listKeys(store) ==
    [i \in 1..(IF Len(store) < KV_LIST_LIMIT THEN Len(store) ELSE KV_LIST_LIMIT)
        |-> i]

\* chunkData && chunkData.embedding
hasEmbedding(chunkData) ==
    chunkData # None /\ "embedding" \in DOMAIN chunkData[1]

\* keys.keys.slice(i, i + batchSize)
batchAt(keys, i) ==
    SubSeq(keys, i + 1, IF i + batchSize < Len(keys) THEN i + batchSize
                        ELSE Len(keys))

\* the chunks pushed for a batch, in the order of the batch
chunksOfBatch(store, batch) ==
    LET kept == SelectSeq(batch, LAMBDA k : hasEmbedding(store[k]))
    IN [j \in 1..Len(kept) |->
          [key |-> kept[j], embedding |-> store[kept[j]][1].embedding]]

IdleRet == [pc |-> "idle", store |-> <<>>, query |-> <<>>, topN |-> 0,
            keys |-> <<>>, i |-> 0, chunks |-> <<>>, out |-> None,
            atList |-> <<>>, skipped |-> {}]

\* the value the key had when the keys were listed
kvGet_asListed(r, k) == r.atList[k]

\* env.KV_EMBEDDINGS.get(key.name, "json"): the value now, null if there is none
kvGet(r, k) == r.store[k]

\* retrieveChunks is called: the query is embedded and the store listed.
RetList ==
    /\ ret.pc = "list"
    /\ ret' = [ret EXCEPT !.pc = "fetch", !.keys = listKeys(ret.store), !.i = 0,
                          !.atList = ret.store]
    /\ UNCHANGED <<now, regVars, memVars, orchVars, rankVars, qry, chunkVars, sideVars>>

\* One turn of the loop: a batch is fetched and its records are pushed.
RetFetch ==
    /\ ret.pc = "fetch"
    /\ ret.i < Len(ret.keys)
    /\ ret' = [ret EXCEPT
                 !.chunks = @ \o chunksOfBatch([k \in DOMAIN ret.store |-> kvGet(ret, k)],
                                               batchAt(ret.keys, ret.i)),
                 !.i = @ + batchSize]
    /\ UNCHANGED <<now, regVars, memVars, orchVars, rankVars, qry, chunkVars, sideVars>>

\* handleDeleteFile, meanwhile: a key listed by the scan is deleted; it is
\* skipped if its batch has not been fetched yet.
RetDelete ==
    /\ ret.pc = "fetch"
    /\ Cardinality({k \in DOMAIN ret.store : ret.store[k] # ret.atList[k]}) < MaxGone
    /\ \E k \in DOMAIN ret.store :
          /\ ret.store[k] # None
          /\ ret' = [ret EXCEPT !.store[k] = None,
                                !.skipped = IF k > ret.i /\ k <= Len(ret.keys)
                                            THEN @ \cup {k} ELSE @]
    /\ UNCHANGED <<now, regVars, memVars, orchVars, rankVars, qry, chunkVars, sideVars>>

\* The loop is over: findTopChunks is called and its result, or its throw,
\* is retrieveChunks's.
RetRank ==
    /\ ret.pc = "fetch"
    /\ ret.i >= Len(ret.keys)
    /\ ret' = [ret EXCEPT !.pc = "done",
                          !.out = findTopChunks(ret.query, ret.chunks, ret.topN)]
    /\ UNCHANGED <<now, regVars, memVars, orchVars, rankVars, qry, chunkVars, sideVars>>

(***************************************************************************)
(* queryLLM: the calls a query makes, in source order.  Each call to the   *)
(* session's ConversationMemory is one request, handled as a whole.        *)
(***************************************************************************)
\* the user's turn is appended before the model is called
queryLLM_steps_appendFirst == <<"state", "appendUser", "llm", "appendAssistant">>

queryLLM_steps == <<"state", "llm", "appendUser", "appendAssistant">>

IdleQry == [pc |-> 0, n |-> 0, session |-> "s1", history |-> <<>>,
            turnsAtStart |-> <<>>, logAtStart |-> <<>>, logAtLlm |-> None,
            userTurn |-> 0, answerTurn |-> 0, memoryState |-> None,
            result |-> "none"]

\* queryLLM is called.
QueryStart ==
    /\ qry.pc = 0
    /\ qry.n < MaxQueries
    /\ qry' = [IdleQry EXCEPT !.pc = 1, !.n = qry.n + 1,
                              !.turnsAtStart = TurnsOfStored(memStore[idFromName(qry.session)], now),
                              !.logAtStart = memLog[qry.session]]
    /\ UNCHANGED <<now, regVars, memVars, orchVars, rankVars, ret, chunkVars, sideVars>>

\* The await at hand completes.
QueryStep ==
    LET step == queryLLM_steps[qry.pc]
        s == qry.session
        stored == memStore[idFromName(s)]
        content == Len(memLog[s]) + 1
        role == IF step = "appendUser" THEN "user" ELSE "assistant"
        put == appendTurn(stored, role, content, s, now)
        last == qry.pc = Len(queryLLM_steps)
    IN
    /\ qry.pc > 0
    /\ CASE step = "state" ->
              /\ qry' = [qry EXCEPT !.pc = @ + 1,
                            !.history = ConversationMemory_getState(stored, now).turns]
              /\ UNCHANGED memVars
         [] step = "llm" ->
              \* env.AI.run answers, or throws and queryLLM with it
              /\ \/ qry' = [qry EXCEPT !.pc = @ + 1, !.logAtLlm = Some(memLog[s])]
                 \/ qry' = [qry EXCEPT !.pc = 0, !.result = "threw"]
              /\ UNCHANGED memVars
         [] OTHER ->
              /\ memStore' = [memStore EXCEPT ![idFromName(s)] = Some(put)]
              /\ memLog' = [memLog EXCEPT ![s] = Append(@, content)]
              /\ qry' = [qry EXCEPT
                    !.pc = IF last THEN 0 ELSE @ + 1,
                    !.userTurn = IF step = "appendUser" THEN content ELSE @,
                    !.answerTurn = IF step = "appendAssistant" THEN content ELSE @,
                    !.memoryState = IF step = "appendAssistant" THEN Some(put) ELSE @,
                    !.result = IF last THEN "returned" ELSE @]
              /\ UNCHANGED <<memReq, nAppends, memOverlapped, memFresh>>
    /\ UNCHANGED <<now, regVars, orchVars, rankVars, ret, chunkVars, sideVars>>

(***************************************************************************)
(* chunkText.  A string is the sequence of its characters, each paired     *)
(* with its place in the text given to chunkText: <<character, place>>.    *)
(* The code reads the characters alone.                                    *)
(***************************************************************************)
\* a letter, a sentence terminator (. ! ?), a blank and a newline
Alphabet == {"a", ".", " ", "\n"}

\* the places where /\n\s*\n/ matches from p: a newline, whitespace, a newline
breakEnds(str, p) ==
    {q \in (p + 1)..Len(str) :
        /\ str[p][1] = "\n"
        /\ str[q][1] = "\n"
        /\ \A m \in p..q : isWhitespace(str[m])}

RECURSIVE splitParagraphs(_)
\* text.split(/\n\s*\n/): the leftmost match, as long as it can be
splitParagraphs(str) ==
    LET starts == {p \in 1..Len(str) : breakEnds(str, p) # {}}
    IN IF starts = {} THEN <<str>>
       ELSE LET p == MinOf(starts)
                q == MaxOf(breakEnds(str, p))
            IN <<SubSeq(str, 1, p - 1)>>
                  \o splitParagraphs(SubSeq(str, q + 1, Len(str)))

RECURSIVE matchSentences(_)
\* paragraph.match(/[^.!?]+[.!?]+/g): a run of characters that are not
\* terminators and the run of terminators after it; terminators with nothing
\* before them, and a last run with no terminator after it, match nothing
matchSentences(str) ==
    LET plain == {i \in 1..Len(str) : ~isTerminator(str[i])}
    IN IF plain = {} THEN <<>>
       ELSE LET i == MinOf(plain)
                j == MaxOf({m \in i..Len(str) :
                              \A x \in i..m : ~isTerminator(str[x])})
            IN IF j = Len(str) THEN <<>>
               ELSE LET k == MaxOf({m \in (j + 1)..Len(str) :
                                      \A x \in (j + 1)..m : isTerminator(str[x])})
                    IN <<SubSeq(str, i, k)>>
                          \o matchSentences(SubSeq(str, k + 1, Len(str)))

\* paragraph.match(...) || [paragraph]
sentencesOf(paragraph) ==
    IF matchSentences(paragraph) = <<>> THEN <<paragraph>>
    ELSE matchSentences(paragraph)

\* currentChunk.slice(-overlap): -0 is 0, and slice(0) is the whole string
sliceLast(str, overlap) ==
    IF overlap = 0 \/ overlap >= Len(str) THEN str
    ELSE SubSeq(str, Len(str) - overlap + 1, Len(str))

\* the index of the first chunk of a paragraph starts again from 0
paragraphFirstIndex_perParagraph(chunkIndex) == 0

\* chunkIndex is declared outside the loop over the paragraphs
paragraphFirstIndex(chunkIndex) == chunkIndex

\* chunks.push({ text: currentChunk.trim(), index: chunkIndex++, startChar:
\* currentIndex - currentChunk.length, endChar: currentIndex }); nSent and
\* sentLen are the number of sentences added to the buffer since it was
\* seeded and the length of the last of them
pushChunk(st) ==
    [st EXCEPT !.chunks = Append(@, [text |-> trim(st.currentChunk),
                                     index |-> st.chunkIndex,
                                     startChar |-> st.currentIndex - Len(st.currentChunk),
                                     endChar |-> st.currentIndex,
                                     para |-> st.para,
                                     nSent |-> st.nSent,
                                     sentLen |-> st.sentLen]),
               !.chunkIndex = @ + 1]

\* the body of the loop over the sentences
sentenceStep(st, sentence, targetChunkSize, overlap) ==
    LET cut == Len(st.currentChunk) + Len(sentence) > targetChunkSize
                  /\ Len(st.currentChunk) > 0
        pushed == IF cut THEN pushChunk(st) ELSE st
    IN [pushed EXCEPT
          !.currentChunk = IF cut THEN sliceLast(st.currentChunk, overlap) \o sentence
                           ELSE st.currentChunk \o sentence,
          !.nSent = IF cut THEN 1 ELSE @ + 1,
          !.sentLen = Len(sentence),
          !.currentIndex = @ + Len(sentence)]

RECURSIVE sentenceLoop(_, _, _, _)
sentenceLoop(st, sentences, targetChunkSize, overlap) ==
    IF sentences = <<>> THEN st
    ELSE sentenceLoop(sentenceStep(st, Head(sentences), targetChunkSize, overlap),
                      Tail(sentences), targetChunkSize, overlap)

\* the body of the loop over the paragraphs
paragraphStep(st0, paragraph, targetChunkSize, overlap) ==
    LET st == [st0 EXCEPT !.para = @ + 1,
                          !.chunkIndex = paragraphFirstIndex(@)]
    IN IF Len(trim(paragraph)) = 0 THEN st
       ELSE IF Len(paragraph) <= targetChunkSize
       THEN [st EXCEPT
               !.chunks = Append(@, [text |-> trim(paragraph),
                                     index |-> st.chunkIndex,
                                     startChar |-> st.currentIndex,
                                     endChar |-> st.currentIndex + Len(paragraph),
                                     para |-> st.para,
                                     nSent |-> 0,
                                     sentLen |-> 0]),
               !.chunkIndex = @ + 1,
               !.currentIndex = @ + Len(paragraph) + 2]
       ELSE LET after == sentenceLoop([st EXCEPT !.currentChunk = <<>>,
                                                 !.nSent = 0, !.sentLen = 0],
                                      sentencesOf(paragraph),
                                      targetChunkSize, overlap)
            IN IF Len(trim(after.currentChunk)) > 0 THEN pushChunk(after)
               ELSE after

RECURSIVE paragraphLoop(_, _, _, _)
paragraphLoop(st, paragraphs, targetChunkSize, overlap) ==
    IF paragraphs = <<>> THEN st
    ELSE paragraphLoop(paragraphStep(st, Head(paragraphs), targetChunkSize, overlap),
                       Tail(paragraphs), targetChunkSize, overlap)

chunkText(text, targetChunkSize, overlap) ==
    paragraphLoop([chunks |-> <<>>, currentIndex |-> 0, chunkIndex |-> 0,
                   currentChunk |-> <<>>, para |-> 0, nSent |-> 0, sentLen |-> 0],
                  splitParagraphs(text), targetChunkSize, overlap).chunks

\* chunkText is called.
Chunk ==
    /\ chOut = None
    /\ chOut' = Some(chunkText(chText, chTarget, chOverlap))
    /\ UNCHANGED <<now, regVars, memVars, orchVars, rankVars, ret, qry, sideVars>>
    /\ UNCHANGED <<chText, chTarget, chOverlap>>

(***************************************************************************)
(* normalizeVector.  Its numbers are counted in units of 1/ONE: a number   *)
(* is a whole count of units up to MAX_VALUE of them, or Infinity; the     *)
(* exact result of an operation is rounded to the nearest count, a result  *)
(* under half a unit to 0 and one beyond MAX_VALUE to Infinity.            *)
(***************************************************************************)
\* 1.0
ONE == 16

\* the whole number nearest to n / d, for d > 0
nearest(n, d) ==
    IF n >= 0 THEN (2 * n + d) \div (2 * d) ELSE -((2 * (-n) + d) \div (2 * d))

\* val * val
square(val) == roundNumber(nearest(val * val, ONE))

\* Math.sqrt(x), x >= 0
sqrt(x) ==
    IF x = Infinity THEN Infinity
    ELSE CHOOSE r \in 0..(MAX_VALUE * ONE) :
            /\ (r = 0 \/ (2 * r - 1) * (2 * r - 1) <= 4 * x * ONE)
            /\ 4 * x * ONE < (2 * r + 1) * (2 * r + 1)

\* val / magnitude, magnitude > 0
divide(val, magnitude) ==
    IF magnitude = Infinity THEN 0 ELSE roundNumber(nearest(val * ONE, magnitude))

RECURSIVE sumOfSquares(_, _)
\* vector.reduce((sum, val) => sum + val * val, 0), over the first n
sumOfSquares(vector, n) ==
    IF n = 0 THEN 0 ELSE add(sumOfSquares(vector, n - 1), square(vector[n]))

magnitudeOf(vector) == sqrt(sumOfSquares(vector, Len(vector)))

normalizeVector(vector) ==
    LET magnitude == magnitudeOf(vector)
    IN IF magnitude = 0 THEN vector
       ELSE [i \in 1..Len(vector) |-> divide(vector[i], magnitude)]

\* The components of the vectors given to normalizeVector: zero, the least
\* count, fractions, 1.0 and counts whose square is beyond MAX_VALUE.
Components == {-48, -16, -12, -1, 0, 1, 12, 16, 20, 48}

\* normalizeVector(vector)
Normalize ==
    /\ norm.once = None
    /\ norm' = [norm EXCEPT !.once = Some(normalizeVector(norm.vector))]
    /\ UNCHANGED <<now, regVars, memVars, orchVars, rankVars, ret, qry,
                   chunkVars, hq, sweep>>

\* normalizeVector(normalizeVector(vector))
NormalizeAgain ==
    /\ norm.once # None
    /\ norm.twice = None
    /\ norm' = [norm EXCEPT !.twice = Some(normalizeVector(norm.once[1]))]
    /\ UNCHANGED <<now, regVars, memVars, orchVars, rankVars, ret, qry,
                   chunkVars, hq, sweep>>

IdleNorm == [vector |-> <<>>, once |-> None, twice |-> None]

(***************************************************************************)
(* handleQuery: retrieveChunks, then queryLLM.  The calls of a session run *)
(* side by side; each request to the session's ConversationMemory is       *)
(* handled as a whole (SpecMemory).                                        *)
(***************************************************************************)
Handlers == {"h1", "h2"}

\* the awaits of handleQuery, in source order
handleQuery_steps == <<"retrieve">> \o queryLLM_steps

IdleHq == [pc |-> 0, n |-> 0, id |-> 0, session |-> "s1", result |-> "none",
           storeAtStart |-> None, logAtStart |-> <<>>]

\* the calls are numbered: those of h1 are odd, those of h2 even
CallId(h, n) == IF h = "h1" THEN 2 * n - 1 ELSE 2 * n

\* the turns of the call numbered id: the query, then the answer
UserTurn(id) == 2 * id - 1
AnswerTurn(id) == 2 * id

\* handleQuery is called with a query and a sessionId.
HqStart(h) ==
    /\ hq[h].pc = 0
    /\ hq[h].n < MaxCalls
    /\ hq' = [hq EXCEPT ![h] =
          [IdleHq EXCEPT !.pc = 1, !.n = hq[h].n + 1,
                         !.id = CallId(h, hq[h].n + 1),
                         !.storeAtStart = memStore[idFromName(hq[h].session)],
                         !.logAtStart = memLog[hq[h].session]]]
    /\ UNCHANGED <<now, regVars, memVars, orchVars, rankVars, ret, qry,
                   chunkVars, norm, sweep>>

\* The await at hand completes, or throws into handleQuery's catch.
HqStep(h) ==
    LET q == hq[h]
        step == handleQuery_steps[q.pc]
        s == q.session
        stored == memStore[idFromName(s)]
        content == IF step = "appendUser" THEN UserTurn(q.id) ELSE AnswerTurn(q.id)
        role == IF step = "appendUser" THEN "user" ELSE "assistant"
        last == q.pc = Len(handleQuery_steps)
    IN
    /\ q.pc > 0
    /\ CASE step \in {"retrieve", "llm"} ->
              \* retrieveChunks or env.AI.run returns, or throws
              /\ \/ hq' = [hq EXCEPT ![h].pc = @ + 1]
                 \/ hq' = [hq EXCEPT ![h].pc = 0, ![h].result = "failed"]
              /\ UNCHANGED memVars
         [] step = "state" ->
              /\ hq' = [hq EXCEPT ![h].pc = @ + 1]
              /\ UNCHANGED memVars
         [] OTHER ->
              /\ memStore' = [memStore EXCEPT ![idFromName(s)] =
                                 Some(appendTurn(stored, role, content, s, now))]
              /\ memLog' = [memLog EXCEPT ![s] = Append(@, content)]
              /\ hq' = [hq EXCEPT ![h].pc = IF last THEN 0 ELSE @ + 1,
                                  ![h].result = IF last THEN "answered" ELSE @]
              /\ UNCHANGED <<memReq, nAppends, memOverlapped, memFresh>>
    /\ UNCHANGED <<now, regVars, orchVars, rankVars, ret, qry, chunkVars,
                   norm, sweep>>

(***************************************************************************)
(* handleCleanupOrphanedChunks: the keys are listed, the registry is       *)
(* listed, and the keys of ids the registry does not list are deleted.     *)
(***************************************************************************)
\* the registry is listed before the keys
sweep_steps_filesFirst == <<"listFiles", "listKeys">>

\* the awaits before the deletes, in source order
sweep_steps == <<"listKeys", "listFiles">>

IdleSweep == [pc |-> 0, allChunks |-> {}, registeredFileIds |-> {},
              pending |-> {}, orphanedChunks |-> {}, rejected |-> FALSE,
              result |-> "none", remainingChunks |-> 0,
              quiet |-> FALSE, idleAtStart |-> {}]

\* the order of the key names: by file, then by chunk
keyBefore(a, b) ==
    \/ a[1][1] < b[1][1]
    \/ a[1] = b[1] /\ a[2] < b[2]

\* env.KV_EMBEDDINGS.list(): keys.keys, the first KV_LIST_LIMIT key names
listPage(store) ==
    {k \in store : Cardinality({j \in store : keyBefore(j, k)}) < KV_LIST_LIMIT}

\* filesData.files.map(f => f.fileId)
registeredIds(stored) ==
    LET files == getState(stored).files
    IN {MapGet(files, id).fileId : id \in MapKeys(files)}

\* no upload and no deletion is under way, and no delete of a key is pending
Quiet ==
    /\ \A t \in Ingests : ing[t].pc \in {"idle", "done", "rejected"}
    /\ \A d \in Deletes : del[d].pc \in {"idle", "done"} /\ del[d].pending = {}

\* the uploads and deletions not asked for yet
IdleCalls ==
    {t \in Ingests : ing[t].pc = "idle"} \cup {d \in Deletes : del[d].pc = "idle"}

\* handleCleanupOrphanedChunks is called.
SweepStart ==
    /\ sweep.pc = 0
    /\ sweep.result = "none"
    /\ sweep' = [IdleSweep EXCEPT !.pc = 1, !.quiet = Quiet,
                                  !.idleAtStart = IdleCalls]
    /\ UNCHANGED <<now, regVars, memVars, orchVars, rankVars, ret, qry,
                   chunkVars, norm, hq>>

\* One of the two listings is answered; after the second the orphaned keys
\* are worked out and their deletes issued.
SweepStep ==
    /\ sweep.pc \in 1..Len(sweep_steps)
    /\ LET step == sweep_steps[sweep.pc]
           listed == IF step = "listKeys"
                     THEN [sweep EXCEPT !.allChunks = listPage(kv)]
                     ELSE [sweep EXCEPT !.registeredFileIds = registeredIds(regStore)]
           orphaned == {k \in listed.allChunks : k[1] \notin listed.registeredFileIds}
       IN sweep' = IF sweep.pc < Len(sweep_steps)
                   THEN [listed EXCEPT !.pc = @ + 1]
                   ELSE [listed EXCEPT !.pc = Len(sweep_steps) + 1,
                                       !.orphanedChunks = orphaned,
                                       !.pending = orphaned]
    /\ UNCHANGED <<now, regVars, memVars, orchVars, rankVars, ret, qry,
                   chunkVars, norm, hq>>

\* One of the issued deletes settles: the key is gone, or the delete throws.
SweepDelete ==
    /\ sweep.pc = Len(sweep_steps) + 1
    /\ \E k \in sweep.pending :
          \/ /\ kv' = kv \ {k}
             /\ sweep' = [sweep EXCEPT !.pending = @ \ {k}]
          \/ /\ kv' = kv
             /\ sweep' = [sweep EXCEPT !.pending = @ \ {k}, !.rejected = TRUE]
    /\ UNCHANGED <<now, ing, del>>
    /\ UNCHANGED <<regVars, memVars, rankVars, ret, qry, chunkVars, norm, hq>>

\* Promise.all(deletePromises) resolves and the counts are answered, or it
\* rejects and the answer is 500.
SweepEnd ==
    /\ sweep.pc = Len(sweep_steps) + 1
    /\ sweep.pending = {}
    /\ sweep' = [sweep EXCEPT
          !.pc = 0,
          !.result = IF sweep.rejected THEN "error" ELSE "success",
          !.remainingChunks = Cardinality(sweep.allChunks)
                                 - Cardinality(sweep.orphanedChunks)]
    /\ UNCHANGED <<now, regVars, memVars, orchVars, rankVars, ret, qry,
                   chunkVars, norm, hq>>

\* Nothing is being normalized, asked or swept.
InitSide ==
    /\ norm = IdleNorm
    /\ hq = [h \in Handlers |-> IdleHq]
    /\ sweep = IdleSweep

\* Nothing is being retrieved, queried or chunked.
InitCalls ==
    /\ ret = IdleRet
    /\ qry = IdleQry
    /\ chText = <<>>
    /\ chTarget = 0
    /\ chOverlap = 0
    /\ chOut = None
    /\ InitSide

InitReg ==
    /\ regStore = NoState
    /\ regDisk = NoState
    /\ regReq = [r \in Req |-> IdleReq]
    /\ returned = <<>>
    /\ nOps = 0
    /\ lin = getState(NoState)
    /\ overlapped = FALSE

InitRegistry ==
    /\ now = 0
    /\ InitReg
    /\ InitMem
    /\ InitOrch
    /\ InitRank
    /\ InitCalls

NextRegistry ==
    \/ \E r \in Req : RegArrive(r)
    \/ \E r \in Req : RegStep(r)
    \/ RegRestart
    \/ Tick

SpecRegistry == InitRegistry /\ [][NextRegistry]_vars

InitMemory ==
    /\ now = 0
    /\ InitReg
    /\ InitMem
    /\ InitOrch
    /\ InitRank
    /\ InitCalls

\* One session's object under concurrent requests.
NextMemory ==
    \/ \E r \in Req : MemArrive(r, "s1")
    \/ \E r \in Req : MemStep(r)
    \/ Tick

SpecMemory == InitMemory /\ [][NextMemory]_vars

InitSessions ==
    /\ now = 0
    /\ InitReg
    /\ InitMem
    /\ InitOrch
    /\ InitRank
    /\ InitCalls

\* The objects of two sessions, each under concurrent requests.
NextSessions ==
    \/ \E r \in Req : \E s \in Sessions :
          nAppends < MaxSessionAppends /\ MemArrive(r, s)
    \/ \E r \in Req : MemStep(r)
    \/ Tick

SpecSessions == InitSessions /\ [][NextSessions]_vars

\* A query, up to MaxRecords records keyed by their place in the scan, and
\* a topN.
InitRanker ==
    /\ now = 0
    /\ InitReg
    /\ InitMem
    /\ InitOrch
    /\ rankQuery \in Queries
    /\ \E n \in 0..MaxRecords :
          rankChunks \in {[i \in 1..n |-> [key |-> i, embedding |-> f[i]]] :
                             f \in [1..n -> Embeddings]}
    /\ rankTopN \in 0..MaxTopN
    /\ rankOut = None
    /\ InitCalls

Rank ==
    /\ rankOut = None
    /\ rankOut' = Some(findTopChunks(rankQuery, rankChunks, rankTopN))
    /\ UNCHANGED <<now, rankQuery, rankChunks, rankTopN>>
    /\ UNCHANGED <<regVars, memVars, orchVars, callVars>>

NextRanker == Rank

SpecRanker == InitRanker /\ [][NextRanker]_vars

\* A store of up to MaxStored values, and a call of retrieveChunks.
InitRetrieve ==
    /\ now = 0
    /\ InitReg
    /\ InitMem
    /\ InitOrch
    /\ InitRank
    /\ qry = IdleQry
    /\ chText = <<>> /\ chTarget = 0 /\ chOverlap = 0 /\ chOut = None
    /\ InitSide
    /\ \E n \in 0..MaxStored : \E store \in [1..n -> StoredValues] :
       \E topN \in {2, DEFAULT_TOP_N} :
          ret = [IdleRet EXCEPT !.pc = "list", !.store = store,
                                !.query = <<1, 1>>, !.topN = topN]

NextRetrieve ==
    \/ RetList
    \/ RetFetch
    \/ RetDelete
    \/ RetRank

SpecRetrieve == InitRetrieve /\ [][NextRetrieve]_vars

\* A text of up to MaxText characters, and targetChunkSize > overlap >= 0.
InitChunker ==
    /\ now = 0
    /\ InitReg
    /\ InitMem
    /\ InitOrch
    /\ InitRank
    /\ ret = IdleRet
    /\ qry = IdleQry
    /\ \E n \in 0..MaxText :
          chText \in {[i \in 1..n |-> <<f[i], i>>] : f \in [1..n -> Alphabet]}
    /\ chTarget \in 1..MaxTarget
    /\ chOverlap \in 0..(chTarget - 1)
    /\ chOut = None
    /\ InitSide

NextChunker == Chunk

SpecChunker == InitChunker /\ [][NextChunker]_vars

\* The queries of one session, with nothing else done on the session.
InitQuery ==
    /\ now = 0
    /\ InitReg
    /\ InitMem
    /\ InitOrch
    /\ InitRank
    /\ InitCalls

NextQuery ==
    \/ QueryStart
    \/ QueryStep
    \/ Tick

SpecQuery == InitQuery /\ [][NextQuery]_vars

\* A vector of two components, to be normalized.
InitNormalizer ==
    /\ now = 0
    /\ InitReg
    /\ InitMem
    /\ InitOrch
    /\ InitRank
    /\ ret = IdleRet
    /\ qry = IdleQry
    /\ chText = <<>> /\ chTarget = 0 /\ chOverlap = 0 /\ chOut = None
    /\ hq = [h \in Handlers |-> IdleHq]
    /\ sweep = IdleSweep
    /\ \E x \in Components : \E y \in Components :
          norm = [IdleNorm EXCEPT !.vector = <<x, y>>]

NextNormalizer ==
    \/ Normalize
    \/ NormalizeAgain

SpecNormalizer == InitNormalizer /\ [][NextNormalizer]_vars

\* The queries of one session, side by side.
InitHandleQuery ==
    /\ now = 0
    /\ InitReg
    /\ InitMem
    /\ InitOrch
    /\ InitRank
    /\ InitCalls

NextHandleQuery ==
    \/ \E h \in Handlers : HqStart(h)
    \/ \E h \in Handlers : HqStep(h)

SpecHandleQuery == InitHandleQuery /\ [][NextHandleQuery]_vars

\* the deletion that runs beside the sweep
SweepDeletes == {"d1"}

\* the files uploaded before: one is registered, the other was deleted
FileA == FileIdOf(1, 0)
FileB == FileIdOf(2, 0)

\* The registry and the passage store after two uploads and a deletion: the
\* file registered has its two passages stored, and the file deleted while
\* it was ingested has left up to MaxOrphans keys behind.
InitSweep ==
    /\ now = 0
    /\ LET state == [files |-> MapSet(<<>>, FileA,
                                      [fileId |-> FileA, uploadedAt |-> 0,
                                       chunkCount |-> 2, status |-> "completed"]),
                     lastFileId |-> 2]
       IN /\ regStore = Some(saveState(state))
          /\ regDisk = Some(saveState(state))
          /\ lin = state
    /\ regReq = [r \in Req |-> IdleReq]
    /\ returned = <<>>
    /\ nOps = 0
    /\ overlapped = FALSE
    /\ InitMem
    /\ \E m \in 0..MaxOrphans :
          kv = {ChunkKey(FileA, ChunkIndexAt(i)) : i \in 0..1}
                  \cup {ChunkKey(FileB, ChunkIndexAt(i)) : i \in 0..(m - 1)}
    /\ ing = [t \in Ingests |-> IdleIng]
    /\ del = [d \in Deletes |-> IdleDel]
    /\ InitRank
    /\ InitCalls

NextSweep ==
    \/ SweepStart
    \/ SweepStep
    \/ SweepDelete
    \/ SweepEnd
    \/ \E t \in Ingests : IngestRegister(t)
    \/ \E t \in Ingests : IngestEmbed(t)
    \/ \E t \in Ingests : IngestPut(t)
    \/ \E t \in Ingests : IngestUpdate(t)
    \/ \E d \in SweepDeletes : DelStart(d)
    \/ \E d \in SweepDeletes : DelKey(d)
    \/ \E d \in SweepDeletes : DelReject(d)
    \/ \E d \in SweepDeletes : DelRegistry(d)
    \/ \E d \in SweepDeletes : DelVerify(d)
    \/ \E d \in SweepDeletes : DelRetryEnd(d)

SpecSweep == InitSweep /\ [][NextSweep]_vars

Init ==
    /\ now = 0
    /\ InitReg
    /\ InitMem
    /\ InitOrch
    /\ InitRank
    /\ InitCalls

Next ==
    \/ \E t \in Ingests : UploadReject(t)
    \/ \E t \in Ingests : IngestRegister(t)
    \/ \E t \in Ingests : IngestEmbed(t)
    \/ \E t \in Ingests : IngestPut(t)
    \/ \E t \in Ingests : IngestUpdate(t)
    \/ \E d \in Deletes : DelStart(d)
    \/ \E d \in Deletes : DelKey(d)
    \/ \E d \in Deletes : DelReject(d)
    \/ \E d \in Deletes : DelRegistry(d)
    \/ \E d \in Deletes : DelVerify(d)
    \/ \E d \in Deletes : DelRetryEnd(d)

Spec == Init /\ [][Next]_vars

(***************************************************************************)
(* FileRegistry: properties.                                               *)
(***************************************************************************)
RegFiles(stored) == getState(stored).files

StatusOf(stored, id) ==
    IF MapHas(RegFiles(stored), id) THEN MapGet(RegFiles(stored), id).status
    ELSE "none"

\* C1: register never returns a fileId that an earlier register returned,
\* whatever registers, updates, deletes and restarts came between.
C1_RegisterIdsUnique ==
    \A i, j \in 1..Len(returned) : i # j => returned[i] # returned[j]

\* Two ids were returned, the first one's entry has been deleted, and a
\* restart lost the response of the register in between (its id, 2, was
\* persisted and never returned).
C1_Witness ==
    /\ Len(returned) = 2
    /\ returned[1][1] = 1
    /\ returned[2][1] = 3
    /\ ~MapHas(RegFiles(regStore), returned[1])
    /\ MapHas(RegFiles(regStore), returned[2])

\* C2: the persisted status of an entry, once completed or error, never
\* changes while the entry exists.
C2_StatusForwardOnly ==
    [][\A id \in MapKeys(RegFiles(regDisk)) :
          (StatusOf(regDisk, id) \in {"completed", "error"}
              /\ StatusOf(regDisk', id) # "none")
          => StatusOf(regDisk', id) = StatusOf(regDisk, id)]_vars

\* C9: the registry the object reads is the one obtained by applying the
\* committed register, update and delete operations one at a time, in the
\* order of their commits: no operation's effect is lost.
C9_NoLostUpdates == getState(regStore) = lin

\* Two registers, the only requests so far, were in flight together and have
\* both responded; both entries are in the registry.
C9_Witness ==
    /\ overlapped
    /\ nOps = 2
    /\ Len(returned) = 2
    /\ \A r \in Req : regReq[r].op = "idle"
    /\ \A i \in 1..2 : MapHas(RegFiles(regStore), returned[i])

\* C11: in every reachable state the entry stored under key k has fileId k,
\* whatever registers and updates were handled, an update whose fields hold
\* a fileId included.
C11_FileIdIsKey ==
    \A k \in MapKeys(RegFiles(regStore)) : MapGet(RegFiles(regStore), k).fileId = k

(***************************************************************************)
(* ConversationMemory: properties.                                         *)
(***************************************************************************)
TurnsOf(s) == ConversationMemory_getState(memStore[idFromName(s)], now).turns

ContentsOf(s) == [i \in 1..Len(TurnsOf(s)) |-> TurnsOf(s)[i].content]

LastOf(seq, n) ==
    IF Len(seq) > n THEN SubSeq(seq, Len(seq) - n + 1, Len(seq)) ELSE seq

MemQuiet(s) == \A r \in Req : memReq[r].session # s

\* C3: the stored turn sequence of a session never holds more than MAX_TURNS
\* turns, whatever appends, getStates and clears were handled.
C3_TurnsBounded == \A s \in Sessions : Len(TurnsOf(s)) <= MAX_TURNS

\* The session holds MAX_TURNS turns after more than MAX_TURNS appends.
C3_Witness ==
    /\ Len(memLog["s1"]) > MAX_TURNS
    /\ Len(TurnsOf("s1")) = MAX_TURNS

\* C4: after N > MAX_TURNS appends since the last clear, getState returns
\* exactly the last MAX_TURNS appended turns, in the order they were appended.
C4_LastTurnsKept ==
    \A s \in Sessions :
        Len(memLog[s]) > MAX_TURNS
            => /\ Len(ContentsOf(s)) = MAX_TURNS
               /\ \A i \in 1..MAX_TURNS :
                     ContentsOf(s)[i] = memLog[s][Len(memLog[s]) - MAX_TURNS + i]

\* 24 appends have left turns 15..24: the oldest 14 are gone.
C4_Witness ==
    /\ Len(memLog["s1"]) = 24
    /\ MemQuiet("s1")
    /\ ContentsOf("s1") = [i \in 1..10 |-> 14 + i]

\* C10: as long as no more than MAX_TURNS appends were committed since the
\* last clear, every one of them is in the log, concurrent or not.
C10_NoLostTurns ==
    \A s \in Sessions :
        Len(memLog[s]) <= MAX_TURNS => ContentsOf(s) = memLog[s]

\* Appends that were in flight together have all responded and the log, not
\* yet full, holds a turn for each.
C10_Witness ==
    /\ memOverlapped["s1"]
    /\ MemQuiet("s1")
    /\ Len(memLog["s1"]) \in 2..MAX_TURNS
    /\ Len(TurnsOf("s1")) = Len(memLog["s1"])

StateAnswered(r) == memReq[r].op = "state" /\ memReq'[r].op = "idle"

ClearDelivered(s) ==
    \E r \in Req : /\ memReq[r].op = "idle"
                   /\ memReq'[r].op = "clear"
                   /\ memReq'[r].session = s

\* C14: GET /state on a session with nothing stored answers a state whose
\* turn sequence is empty, never an error, and the request leaves the storage
\* as it was: nothing is created for the session.
C14_FreshStateIsEmpty ==
    [][\A r \in Req :
          StateAnswered(r)
          => /\ memStore' = memStore
             /\ memStore[idFromName(memReq[r].session)] = None
                   => memFresh'[memReq[r].session] = "empty"]_vars

\* A session nothing was ever appended to has been asked for its state, and
\* still has nothing stored.
C14_Witness ==
    /\ memFresh["s1"] = "empty"
    /\ nAppends = 0
    /\ memStore["s1"] = None
    /\ MemQuiet("s1")

\* C15: when clear is handled the session's turn sequence, however long, is
\* empty from then on until an append is stored, and the append stored first
\* after it leaves a log of exactly that one turn.
C15_ClearStartsAfresh ==
    [][\A s \in Sessions :
          /\ ClearDelivered(s) => TurnsOf(s)' = <<>>
          /\ (TurnsOf(s) = <<>> /\ TurnsOf(s)' # <<>>)
                => /\ Len(TurnsOf(s)') = 1
                   /\ ContentsOf(s)' = memLog'[s]]_vars

\* Ten turns were appended, the session was cleared, and one turn has been
\* appended since: the log holds that turn alone.
C15_Witness ==
    /\ nAppends = 11
    /\ MemQuiet("s1")
    /\ memLog["s1"] = <<1>>
    /\ ContentsOf("s1") = <<1>>

\* C16: the turn sequence of a session changes only in a step of a request
\* made on that session: appends and clears on the other sessions, however
\* interleaved, leave it as it was.
C16_SessionsIndependent ==
    [][\A s \in Sessions :
          TurnsOf(s)' # TurnsOf(s)
          => \E r \in Req : /\ memReq'[r] # memReq[r]
                            /\ memReq[r].session = s \/ memReq'[r].session = s]_vars

\* Two turns were appended to s1 and one to s2, which was then cleared: s1
\* holds its two turns.
C16_Witness ==
    /\ nAppends = 3
    /\ \A r \in Req : memReq[r].op = "idle"
    /\ ContentsOf("s1") = <<1, 2>>
    /\ memStore["s2"] = None
    /\ memLog["s2"] = <<>>

(***************************************************************************)
(* Ingestion and deletion: properties.                                     *)
(***************************************************************************)
AllChunks(n) == {ChunkIndexAt(i) : i \in 0..(n - 1)}

Untouched(fileId) == \A d \in Deletes : del[d].fileId # fileId

EntryOf(fileId) == MapGet(RegFiles(regStore), fileId)

\* C5: when ingestFile has returned, the count it returned is the number of
\* passages whose put succeeded, the registry entry (while it exists) carries
\* that chunkCount, and it is the number of keys under the file's prefix as
\* long as no deletion was asked for the file.
C5_ChunkCountIsStored ==
    \A t \in Ingests :
        ing[t].pc = "done" =>
            /\ ing[t].processedCount = ing[t].nStored
            /\ MapHas(RegFiles(regStore), ing[t].fileId)
                  => EntryOf(ing[t].fileId).chunkCount = ing[t].nStored
            /\ Untouched(ing[t].fileId)
                  => /\ MapHas(RegFiles(regStore), ing[t].fileId)
                     /\ EntryOf(ing[t].fileId).chunkCount
                            = Cardinality(KeysOf(kv, ing[t].fileId))

\* An ingestion of three passages has returned: one failed, two are stored
\* and counted.
C5_Witness ==
    \E t \in Ingests :
        /\ ing[t].pc = "done"
        /\ ing[t].n = 3
        /\ Len(ing[t].errors) = 1
        /\ Untouched(ing[t].fileId)
        /\ EntryOf(ing[t].fileId).chunkCount = 2
        /\ Cardinality(KeysOf(kv, ing[t].fileId)) = 2

\* C6: a passage that fails does not end the loop: once the loop is over
\* every passage has been attempted, and the status sent to the registry is
\* error exactly when some passage was not stored, completed otherwise.
C6_FailuresDoNotAbort ==
    \A t \in Ingests :
        /\ ing[t].pc \in {"update", "done"} => ing[t].tried = AllChunks(ing[t].n)
        /\ ing[t].pc = "done" =>
              /\ ing[t].sent = "error" <=> ing[t].nStored < ing[t].n
              /\ ing[t].sent = "completed" <=> ing[t].nStored = ing[t].n
              /\ MapHas(RegFiles(regStore), ing[t].fileId)
                    => EntryOf(ing[t].fileId).status = ing[t].sent

\* The first of three passages failed, the two after it were stored, and the
\* status sent is error.
C6_Witness ==
    \E t \in Ingests :
        /\ ing[t].pc = "done"
        /\ ing[t].n = 3
        /\ ing[t].errors = <<ChunkIndexAt(0)>>
        /\ KeysOf(kv, ing[t].fileId)
              = {ChunkKey(ing[t].fileId, ChunkIndexAt(1)),
                 ChunkKey(ing[t].fileId, ChunkIndexAt(2))}
        /\ ing[t].sent = "error"

C8_RegistryDeletedAfterChunks ==
    \A d \in Deletes :
        /\ del[d].regDeleted =>
              /\ ~del[d].rejected
              /\ del[d].pc \in {"verify", "retry", "done"}
              /\ \A i \in 0..(del[d].chunkCount - 1) :
                    ChunkKey(del[d].fileId, ChunkIndexAt(i)) \notin kv
        /\ (del[d].rejected /\ del[d].pc = "done") =>
              /\ del[d].result = "error"
              /\ ~del[d].regDeleted
              /\ \/ MapHas(RegFiles(regStore), del[d].fileId)
                 \/ \E d2 \in Deletes \ {d} :
                       del[d2].fileId = del[d].fileId /\ del[d2].regDeleted

\* One of two chunk deletes failed after the other had removed its key: the
\* deletion answered with an error and the entry is in the registry.
C8_Witness ==
    \E d \in Deletes :
        /\ del[d].pc = "done"
        /\ del[d].rejected
        /\ del[d].result = "error"
        /\ del[d].chunkCount = 2
        /\ del[d].pending = {}
        /\ Cardinality(KeysOf(kv, del[d].fileId)) = 1
        /\ MapHas(RegFiles(regStore), del[d].fileId)

\* C12: an ingestion sends one update to the registry, once every passage has
\* been attempted; until then the entry it registered is in status processing,
\* and once the call has returned the entry, while it exists, is completed or
\* error (and exists if no deletion was asked for the file).
C12_OneTerminalUpdate ==
    \A t \in Ingests :
        LET g == ing[t]
            there == MapHas(RegFiles(regStore), g.fileId)
        IN /\ g.nUpdates <= 1
           /\ g.nUpdates = 1 => g.tried = AllChunks(g.n)
           /\ (g.pc \in {"embed", "put", "update"} /\ there)
                 => /\ g.nUpdates = 0
                    /\ EntryOf(g.fileId).status = "processing"
           /\ g.pc = "done"
                 => /\ g.nUpdates = 1
                    /\ there => /\ g.updateOk
                                /\ EntryOf(g.fileId).status \in {"completed", "error"}
                    /\ Untouched(g.fileId) => there

\* Both passages of a file were stored and the call has returned: the entry
\* went from processing to completed with the one update.
C12_Witness ==
    \E t \in Ingests :
        /\ ing[t].pc = "done"
        /\ ing[t].n = 2
        /\ ing[t].nUpdates = 1
        /\ ing[t].tried = AllChunks(2)
        /\ MapHas(RegFiles(regStore), ing[t].fileId)
        /\ EntryOf(ing[t].fileId).status = "completed"

\* C17: a deletion that answered success reports a failed verification only
\* if keys are still stored under the file's prefix when it answers.
C17_FailedVerificationMeansResiduals ==
    \A d \in Deletes :
        (del[d].pc = "done" /\ del[d].result = "success"
            /\ del[d].verification = "failed")
            => KeysOf(kv, del[d].fileId) # {}

\* C18: an ingestion whose update the registry answered with NotFound does
\* not return as a success.
C18_FailedUpdateSurfaced ==
    \A t \in Ingests :
        (ing[t].pc = "done" /\ ~ing[t].updateOk) => ing[t].result = "error"

\* C13: an update for a fileId that is not in the registry is answered
\* NotFound and leaves the stored registry, entries and id counter, as it was.
C13_UpdateUnknownIsNotFound ==
    [][\A t \in Ingests :
          (ing[t].pc = "update" /\ ing'[t].pc = "done"
              /\ ~MapHas(RegFiles(regStore), ing[t].fileId))
          => /\ ~ing'[t].updateOk
             /\ regStore' = regStore
             /\ regDisk' = regDisk]_vars

\* The entry was deleted while the file was being ingested: the update was
\* answered NotFound and the registry, its counter at 1, holds no entry.
C13_Witness ==
    \E t \in Ingests :
        /\ ing[t].pc = "done"
        /\ ~ing[t].updateOk
        /\ getState(regStore) = [files |-> <<>>, lastFileId |-> 1]

(***************************************************************************)
(* The ranker: properties.                                                 *)
(***************************************************************************)
HasReturned == rankOut # None /\ rankOut[1] # None

Returned == rankOut[1][1]

ReturnedKeys == {Returned[i].chunkKey : i \in 1..Len(Returned)}

ScoreOf(key) == cosineSimilarity(rankQuery, rankChunks[key].embedding)[1]

\* C19: with vectors of one length, findTopChunks returns min(topN, number of records) records, each a
\* record of the input with its score and none twice, in non-increasing
\* order of score, and no record left out has a higher score than a
\* returned one.
C19_TopNSorted ==
    HasReturned =>
        /\ Len(Returned) = IF rankTopN < Len(rankChunks) THEN rankTopN
                           ELSE Len(rankChunks)
        /\ \A i \in 1..Len(Returned) :
              /\ Returned[i].chunkKey \in 1..Len(rankChunks)
              /\ Returned[i].score = ScoreOf(Returned[i].chunkKey)
        /\ \A i, j \in 1..Len(Returned) :
              /\ i < j => Returned[i].score >= Returned[j].score
              /\ i # j => Returned[i].chunkKey # Returned[j].chunkKey
        /\ \A i \in 1..Len(Returned) :
              \A k \in (1..Len(rankChunks)) \ ReturnedKeys :
                 Returned[i].score >= ScoreOf(k)

\* Of four records scanned in rising order of score, the two of highest
\* score were returned, the highest first.
C19_Witness ==
    /\ HasReturned
    /\ Len(rankChunks) = 4
    /\ rankTopN = 2
    /\ \A k \in 1..3 : ScoreOf(k) <= ScoreOf(k + 1)
    /\ ScoreOf(2) < ScoreOf(3) /\ ScoreOf(3) < ScoreOf(4)
    /\ Returned = <<[chunkKey |-> 4, score |-> ScoreOf(4)],
                    [chunkKey |-> 3, score |-> ScoreOf(3)]>>

\* C20: records of equal score are returned in the order they were supplied
\* in, and of records of equal score the ones supplied first are the ones
\* returned when topN cuts through them.
C20_TiesKeepScanOrder ==
    HasReturned =>
        /\ \A i, j \in 1..Len(Returned) :
              (i < j /\ Returned[i].score = Returned[j].score)
                 => Returned[i].chunkKey < Returned[j].chunkKey
        /\ \A i \in 1..Len(Returned) :
              \A k \in (1..Len(rankChunks)) \ ReturnedKeys :
                 ScoreOf(k) = Returned[i].score => Returned[i].chunkKey < k

\* The first, third and fourth records tie below the second: with topN = 3
\* the second, the first and the third are returned and the fourth is not.
C20_Witness ==
    /\ HasReturned
    /\ Len(rankChunks) = 4
    /\ rankTopN = 3
    /\ ScoreOf(1) = ScoreOf(3) /\ ScoreOf(3) = ScoreOf(4)
    /\ ScoreOf(2) > ScoreOf(1)
    /\ [i \in 1..3 |-> Returned[i].chunkKey] = <<2, 1, 3>>

HasMismatch ==
    \E i \in 1..Len(rankChunks) : Len(rankChunks[i].embedding) # Len(rankQuery)

\* C21: cosineSimilarity throws when the two vectors differ in length and
\* yields no score, and findTopChunks throws, returning no ranking, exactly
\* when some record's vector differs in length from the query's.
C21_MismatchIsAnError ==
    /\ \A i \in 1..Len(rankChunks) :
          (cosineSimilarity(rankQuery, rankChunks[i].embedding) = None)
             <=> Len(rankChunks[i].embedding) # Len(rankQuery)
    /\ rankOut # None => ((rankOut[1] = None) <=> HasMismatch)

\* The last of three records is the only one of another length, and
\* findTopChunks has thrown.
C21_Witness ==
    /\ rankOut = Some(None)
    /\ Len(rankChunks) = 3
    /\ rankTopN = 2
    /\ \A i \in 1..3 : (Len(rankChunks[i].embedding) # Len(rankQuery)) <=> i = 3

\* C22: every score findTopChunks returns is finite.
C22_ScoresFinite ==
    HasReturned => \A i \in 1..Len(Returned) : isFinite(Returned[i].score)

(***************************************************************************)
(* retrieveChunks and queryLLM: properties.                                *)
(***************************************************************************)
\* a record whose embedding is a vector of the query's length
WellFormed(value, query) ==
    hasEmbedding(value) /\ Len(value[1].embedding) = Len(query)

FedKeys == {ret.chunks[j].key : j \in 1..Len(ret.chunks)}

\* C23: retrieveChunks returns a ranking whatever the stored values are: a
\* value that is absent, has no embedding or has one of another length does
\* not make it throw.
C23_MalformedIsSkipped == ret.pc = "done" => ret.out # None

\* C24: when retrieveChunks has returned, every stored record with a
\* well-formed embedding was handed to findTopChunks.
C24_FullScan ==
    (ret.pc = "done" /\ ret.out # None)
        => \A k \in 1..Len(ret.store) :
              WellFormed(ret.store[k], ret.query) => k \in FedKeys

\* C38: when retrieveChunks is through with a scan during which keys it had
\* listed were deleted, the keys deleted before their batch was fetched were
\* not handed to findTopChunks, and unless a record handed to it has an
\* embedding of another length than the query a ranking of records fetched
\* is returned.
C38_DeletedKeyIsSkipped ==
    ret.pc = "done" =>
        /\ ret.skipped \cap FedKeys = {}
        /\ (\A j \in 1..Len(ret.chunks) :
                Len(ret.chunks[j].embedding) = Len(ret.query))
              => /\ ret.out # None
                 /\ \A j \in 1..Len(ret.out[1]) : ret.out[1][j].chunkKey \in FedKeys

\* A record listed in the second batch was deleted before the batch was
\* fetched, and the scan returned a ranking of the three records left.
C38_Witness ==
    /\ ret.pc = "done"
    /\ ret.skipped = {3}
    /\ WellFormed(ret.atList[3], ret.query)
    /\ ret.out # None
    /\ Len(ret.out[1]) = 3
    /\ FedKeys = {1, 2, 4}

LastTurns(turns, n) == SubSeq(turns, Len(turns) - n + 1, Len(turns))

\* C25: when a query has returned, with nothing else done on its session,
\* the session's log is the log it started from followed by two turns, the
\* user's query then the model's answer; the model was called before either
\* was appended, with the history as it was when the query started; and the
\* state returned is the state stored after both appends.
C25_QueryAppendsTwoTurns ==
    (qry.pc = 0 /\ qry.result = "returned") =>
        LET s == qry.session
            stored == memStore[idFromName(s)][1]
            two == LastTurns(stored.turns, 2)
        IN /\ memLog[s] = qry.logAtStart \o <<qry.userTurn, qry.answerTurn>>
           /\ two[1].role = "user" /\ two[1].content = qry.userTurn
           /\ two[2].role = "assistant" /\ two[2].content = qry.answerTurn
           /\ qry.logAtLlm = Some(qry.logAtStart)
           /\ qry.history = qry.turnsAtStart
           /\ qry.memoryState = Some(stored)

\* The sixth query of a session has returned: it read a full history of
\* MAX_TURNS turns and its two turns are the eleventh and twelfth appended.
C25_Witness ==
    /\ qry.pc = 0
    /\ qry.result = "returned"
    /\ qry.n = 6
    /\ Len(qry.history) = MAX_TURNS
    /\ qry.userTurn = 11
    /\ qry.answerTurn = 12
    /\ Len(TurnsOf("s1")) = MAX_TURNS

(***************************************************************************)
(* chunkText: properties.                                                  *)
(***************************************************************************)
Passages == chOut[1]

\* the characters of a string, without their places
Chars(str) == [i \in 1..Len(str) |-> str[i][1]]

\* the places of the text that a passage holds
PlacesIn(passage) == {passage.text[i][2] : i \in 1..Len(passage.text)}

\* C26: every character of the text that is not whitespace is in at least
\* one of the passages returned.
C26_NothingLeftOut ==
    chOut # None =>
        \A i \in 1..Len(chText) :
            ~isWhitespace(chText[i])
               => \E p \in 1..Len(Passages) : i \in PlacesIn(Passages[p])

\* C27: no passage is longer than targetChunkSize + overlap, but one that
\* holds a single sentence which is longer than targetChunkSize.
C27_PassageBound ==
    chOut # None =>
        \A p \in 1..Len(Passages) :
            \/ Len(Passages[p].text) <= chTarget + chOverlap
            \/ Passages[p].nSent = 1 /\ Passages[p].sentLen > chTarget

\* the last n characters of a string, or all of it
Trailing(str, n) == SubSeq(str, IF n < Len(str) THEN Len(str) - n + 1 ELSE 1, Len(str))

\* C28: of two consecutive passages cut from one paragraph, the later one
\* begins with the last overlap characters of the earlier one.
C28_OverlapIsPrefix ==
    chOut # None =>
        \A p \in 1..(Len(Passages) - 1) :
            Passages[p].para = Passages[p + 1].para
               => LET tail == Chars(Trailing(Passages[p].text, chOverlap))
                      later == Chars(Passages[p + 1].text)
                  IN /\ Len(tail) <= Len(later)
                     /\ SubSeq(later, 1, Len(tail)) = tail

\* C29: the passages returned carry the indices 0, 1, ..., n-1 in the order
\* they are returned in, whatever paragraphs they come from; their startChar
\* never decreases along that order and is never beyond their endChar.
C29_IndicesAndOffsets ==
    chOut # None =>
        /\ \A p \in 1..Len(Passages) :
              /\ Passages[p].index = p - 1
              /\ Passages[p].startChar <= Passages[p].endChar
        /\ \A p \in 1..(Len(Passages) - 1) :
              Passages[p].startChar <= Passages[p + 1].startChar

\* A first paragraph longer than targetChunkSize gave one passage and the
\* paragraph after it another, of index 1 and of a later startChar.
C29_Witness ==
    /\ chOut # None
    /\ Len(Passages) = 2
    /\ Passages[1].para = 1
    /\ Passages[1].nSent = 1
    /\ Passages[2].para = 2
    /\ Passages[2].index = 1
    /\ Passages[1].startChar < Passages[2].startChar

\* C30: the step in which ingestFile has its register call answered leaves
\* an entry of the id answered, in status processing and with chunkCount 0,
\* and no key of that id in the passage store; and a key is written to the
\* passage store only under the id an ingestFile call has had answered by
\* register in an earlier step.
C30_RegisterBeforePassages ==
    [][/\ \A t \in Ingests :
            (ing[t].pc = "idle" /\ ing'[t].pc \notin {"idle", "rejected"})
               => LET fileId == ing'[t].fileId
                      files == RegFiles(regStore')
                  IN /\ fileId # NoId
                     /\ MapHas(files, fileId)
                     /\ MapGet(files, fileId).status = "processing"
                     /\ MapGet(files, fileId).chunkCount = 0
                     /\ KeysOf(kv', fileId) = {}
       /\ \A k \in kv' \ kv :
            \E t \in Ingests : /\ ing[t].pc # "idle"
                               /\ ing[t].fileId = k[1]
                               /\ ing[t].fileId # NoId]_vars

\* An ingestion that registered has stored a first key; the entry of its id
\* is still as register made it.
C30_Witness ==
    \E t \in Ingests :
        /\ ing[t].pc = "embed"
        /\ ing[t].nStored = 1
        /\ KeysOf(kv, ing[t].fileId) = {ChunkKey(ing[t].fileId, ChunkIndexAt(0))}
        /\ MapHas(RegFiles(regStore), ing[t].fileId)
        /\ EntryOf(ing[t].fileId).status = "processing"
        /\ EntryOf(ing[t].fileId).chunkCount = 0

(***************************************************************************)
(* normalizeVector: properties.                                            *)
(***************************************************************************)
\* the tolerance: an eighth of 1.0
TOLERANCE == ONE \div 8

Near(x, y) == x # Infinity /\ y # Infinity /\ x - y <= TOLERANCE /\ y - x <= TOLERANCE

IsZero(vector) == \A i \in 1..Len(vector) : vector[i] = 0

\* C31: the normal form of a vector that is not the zero vector has
\* magnitude 1 and is its own normal form, within the tolerance; the zero
\* vector is returned as it is.
C31_NormalizeIdempotent ==
    norm.twice # None =>
        LET v == norm.vector
            once == norm.once[1]
            twice == norm.twice[1]
        IN IF IsZero(v) THEN once = v
           ELSE /\ Near(magnitudeOf(once), ONE)
                /\ \A i \in 1..Len(v) : Near(twice[i], once[i])

(***************************************************************************)
(* handleQuery: properties.                                                *)
(***************************************************************************)
\* C32: in the turns of the session, a user's turn that is not the last is
\* followed by the answer of the same query.
C32_AnswerFollowsQuery ==
    LET turns == TurnsOf("s1")
    IN \A i \in 1..(Len(turns) - 1) :
          turns[i].role = "user"
             => /\ turns[i + 1].role = "assistant"
                /\ turns[i + 1].content = turns[i].content + 1

\* C36: the step in which a query fails leaves the session as it is, and no
\* step of that query before it has appended a turn: neither of the query's
\* turns is in the session's log, and the stored state is the one the query
\* started from unless another query has appended since.
C36_FailedQueryAppendsNothing ==
    [][\A h \in Handlers :
          (hq[h].pc > 0 /\ hq'[h].pc = 0 /\ hq'[h].result = "failed")
             => LET s == hq[h].session
                IN /\ memStore' = memStore
                   /\ memLog' = memLog
                   /\ \A i \in 1..Len(memLog[s]) :
                         memLog[s][i] \notin {UserTurn(hq[h].id), AnswerTurn(hq[h].id)}
                   /\ memLog[s] = hq[h].logAtStart
                         => memStore[idFromName(s)] = hq[h].storeAtStart]_vars

\* A query failed at the call of the model, after another query of the
\* session had appended its two turns.
C36_Witness ==
    \E h \in Handlers :
        /\ hq[h].pc = 0
        /\ hq[h].result = "failed"
        /\ hq[h].n = 2
        /\ Len(memLog[hq[h].session]) = 4
        /\ \A g \in Handlers \ {h} : hq[g].pc = 0 /\ hq[g].result = "answered"

(***************************************************************************)
(* handleUpload and handleDeleteFile: more properties.                     *)
(***************************************************************************)
\* C33: once a deletion has answered success, no key is left under the
\* file's prefix, whether or not the file's ingestion had returned when the
\* deletion was asked for.
C33_DeletedStaysDeleted ==
    \A d \in Deletes :
        (del[d].pc = "done" /\ del[d].result = "success")
            => KeysOf(kv, del[d].fileId) = {}

\* the content is missing, empty or made of whitespace only
Blank(fileContent) ==
    IF fileContent = None THEN TRUE
    ELSE \A i \in 1..Len(fileContent[1]) : fileContent[1][i] \in {" ", "\n"}

\* C37: the step in which an upload of blank content is taken up rejects it
\* and leaves the registry and the passage store as they are; a rejected
\* upload does nothing more.
C37_BlankUploadRejected ==
    [][\A t \in Ingests :
          /\ (ing[t].pc = "idle" /\ ing'[t].pc # "idle" /\ Blank(ing'[t].content))
                => /\ ing'[t].pc = "rejected"
                   /\ ing'[t].result = "rejected"
                   /\ ing'[t].fileId = NoId
                   /\ regStore' = regStore
                   /\ regDisk' = regDisk
                   /\ kv' = kv
          /\ ing[t].pc = "rejected" => ing'[t] = ing[t]]_vars

\* An upload of two whitespace characters was rejected; nothing is
\* registered and nothing stored.
C37_Witness ==
    \E t \in Ingests :
        /\ ing[t].pc = "rejected"
        /\ ing[t].content = Some(<<"\n", " ">>)
        /\ regStore = NoState
        /\ kv = {}

\* C39: the step in which a deletion is taken up for an id that is not in
\* the registry answers not found and leaves the passage store and the
\* registry as they are; a deletion that answered not found does nothing
\* more.
C39_DeleteUnknownIsNotFound ==
    [][\A d \in Deletes :
          /\ (del[d].pc = "idle" /\ del'[d].pc # "idle"
                /\ ~MapHas(RegFiles(regStore), del'[d].fileId))
                => /\ del'[d].pc = "done"
                   /\ del'[d].result = "notfound"
                   /\ kv' = kv
                   /\ regStore' = regStore
                   /\ regDisk' = regDisk
          /\ del[d].result = "notfound" => del'[d] = del[d]]_vars

\* A deletion answered not found for a file another deletion had removed
\* from the registry, while keys of the file are in the passage store.
C39_Witness ==
    \E d \in Deletes :
        /\ del[d].pc = "done"
        /\ del[d].result = "notfound"
        /\ del[d].fileId # NoId
        /\ KeysOf(kv, del[d].fileId) # {}

(***************************************************************************)
(* handleCleanupOrphanedChunks: properties.                                *)
(***************************************************************************)
\* C34: a step in which the sweep deletes a key deletes a key of a file
\* that the registry does not hold in that step.
C34_SweepSparesRegistered ==
    [][sweep'.pending # sweep.pending
          => \A k \in kv \ kv' : k[1] \notin MapKeys(RegFiles(regStore))]_vars

\* The sweep has deleted the keys left behind by the deleted file while a
\* new file, registered, had a key in the store that the sweep had listed.
C34_Witness ==
    /\ sweep.pc = 0
    /\ sweep.result = "success"
    /\ Cardinality(sweep.orphanedChunks) = 1
    /\ \E t \in Ingests :
          /\ ing[t].fileId # NoId
          /\ MapHas(RegFiles(regStore), ing[t].fileId)
          /\ KeysOf(kv, ing[t].fileId) # {}
          /\ KeysOf(sweep.allChunks, ing[t].fileId) # {}
    /\ KeysOf(kv, FileB) = {}

\* C35: when a sweep that ran with nothing else under way has answered
\* success, every key in the passage store is of a file the registry holds,
\* and the count of remaining keys it answered is the number of keys in the
\* store.
C35_SweepLeavesNoOrphans ==
    (/\ sweep.pc = 0
     /\ sweep.result = "success"
     /\ sweep.quiet
     /\ IdleCalls = sweep.idleAtStart)
        => /\ \A k \in kv : k[1] \in MapKeys(RegFiles(regStore))
           /\ sweep.remainingChunks = Cardinality(kv)

====
